---- MODULE Spec2Model ----
(***************************************************************************)
(* Model of the Gateway of masto.js (src/src/client/gateway.ts): the       *)
(* request wrapper with its error classification, the GET helper and the   *)
(* custom async iterator returned by Gateway.paginate.                     *)
(*                                                                         *)
(* JavaScript values are modelled as follows.                              *)
(*   - a string-valued slot that may be undefined holds a string, with     *)
(*     Undefined standing for the JS value undefined; "" is the empty      *)
(*     string (falsy, like undefined);                                     *)
(*   - an object of query parameters is [def |-> TRUE, kv |-> <<..>>],     *)
(*     kv being its key/value pairs in insertion order; undefined is       *)
(*     UndefParams (def = FALSE).  Every object is truthy, also {};        *)
(*   - a Link header is the sequence of refs http-link-header parses it    *)
(*     to, each [rel |-> .., uri |-> ..].                                  *)
(***************************************************************************)
EXTENDS Integers, Sequences, FiniteSets, TLC

\* Longest chain of pages the modelled server holds.
MaxPages == 2

\* Number of calls made on the iterator in one behaviour.
MaxCalls == 3

\* Number of paginators created side by side on one gateway.
NumPaginators == 2

\* Number of next() calls begun on those paginators in one behaviour.
MaxIterCalls == 3

\* The largest number of wire tokens one read of the stream delivers.
MaxChunk == 3

\* The number of connection requests one stream session makes.
MaxAttempts == 3

\* The number of handlers subscribed to one stream session.
MaxHandlers == 2

VARIABLES
  initialUrl,     \* paginate(initialUrl, ..)              gateway.ts:226
  initialParams,  \* paginate(.., initialParams)           gateway.ts:227
  token,          \* Gateway.token                         gateway.ts:42
  url,            \* closure variable url of paginate      gateway.ts:231
  params,         \* closure variable params of paginate   gateway.ts:232
  serverLen,      \* environment: number n of pages P1..Pn the server holds
  serverTail,     \* environment: Link header of the last page Pn
  ncalls,         \* number of iterator calls made so far
  last,           \* the most recent iterator call: options, request, outcome, result
  plain,          \* all calls so far were next() without options, all fetches succeeded
  returned,       \* while plain: what each next() call gave its caller, in call order
  lastOkUri,      \* uri of the usable next link of the latest response, "" if it had none
  lastLinkUri,    \* uri of the usable next link of the latest response carrying one
  resetSince,     \* next({reset: true}) was called after that response
  created,        \* the paginators created so far by paginate(..)
  store,          \* the url and params variables of each paginate(..) call
  calls,          \* the next() calls that are pending on their fetch
  wire,           \* the requests in flight
  issued,         \* number of next() calls begun on the paginators of `created`
  settled,        \* the next() call that settled last, with its result
  actor,          \* the paginator the last step was taken on
  connState,      \* ConnectionState of the stream session, "None" before stream()
  connReq,        \* the latest connection request of the session
  attempts,       \* number of connection requests the session has made
  wireIn,         \* what the open connection has still to deliver
  consumed,       \* what the open connection has delivered so far
  decoder,        \* the Stream Decoder: partial line and partial frame
  emitted,        \* the frames decoded by the session, in order
  connBase,       \* number of frames decoded before the open connection
  midLine,        \* a chunk of the open connection ended inside a line
  handlers,       \* the subscribed handlers, in registration order
  log,            \* the handler invocations, in order
  connError,      \* the error surfaced to the caller of connect
  lastClose       \* the latest call of close() and how it ended

\* The paginators created side by side, their pending calls and requests.
iterVars == <<created, store, calls, wire, issued, settled, actor>>

\* The stream session opened by Gateway.stream.
streamVars == <<connState, connReq, attempts, wireIn, consumed, decoder,
                emitted, connBase, midLine, handlers, log, connError,
                lastClose>>

vars == <<initialUrl, initialParams, token, url, params, serverLen, serverTail,
          ncalls, last, plain, returned, lastOkUri, lastLinkUri, resetSince,
          iterVars, streamVars>>

-----------------------------------------------------------------------------
(* JavaScript values *)

Undefined == "undefined"

\* JS truthiness of a string-or-undefined value.
Truthy(s) == s # Undefined /\ s # ""

UndefParams == [def |-> FALSE, kv |-> <<>>]

Obj(kv) == [def |-> TRUE, kv |-> kv]

\* querystring.stringify of an object: key=value pairs joined by "&"
\* (keys and values of the model need no percent-escaping).
RECURSIVE Stringify(_)
Stringify(kv) ==
  IF Len(kv) = 0 THEN ""
  ELSE IF Len(kv) = 1 THEN kv[1][1] \o "=" \o kv[1][2]
  ELSE kv[1][1] \o "=" \o kv[1][2] \o "&" \o Stringify(Tail(kv))

-----------------------------------------------------------------------------
(* Gateway.get and Gateway.request *)

NoHeaders == [ContentType |-> Undefined, Authorization |-> Undefined]

\* next reaches get through the alias `const get = this.get` (line 229); the
\* model takes that call to run Gateway.get on the gateway.
\* get(url, params = {}, options = {}): the default {} replaces an undefined
\* params, and the query string is appended only when the object has keys.
Get(u, p) ==
  LET q == IF p.def THEN p.kv ELSE <<>>
  IN [method  |-> "GET",
      url     |-> u \o (IF Len(q) # 0 THEN "?" \o Stringify(q) ELSE ""),
      headers |-> NoHeaders]

\* Mutant: the Authorization header is written whether or not a token is set.
RequestOptionsAlwaysBearer(options, tok) ==
  [options EXCEPT
     !.headers = [ContentType   |-> IF Truthy(options.headers.ContentType)
                                    THEN options.headers.ContentType
                                    ELSE "application/json",
                  Authorization |-> "Bearer " \o tok]]

\* Mutant: request always sends JSON.
RequestOptionsAlwaysJson(options, tok) ==
  [options EXCEPT
     !.headers = [ContentType   |-> "application/json",
                  Authorization |-> IF Truthy(tok)
                                    THEN "Bearer " \o tok
                                    ELSE options.headers.Authorization]]

\* request, lines 74-84: the headers put on the outgoing request.
RequestOptions(options, tok) ==
  [options EXCEPT
     !.headers = [ContentType   |-> IF Truthy(options.headers.ContentType)
                                    THEN options.headers.ContentType
                                    ELSE "application/json",
                  Authorization |-> IF Truthy(tok)
                                    THEN "Bearer " \o tok
                                    ELSE options.headers.Authorization]]

NoError == [name |-> "", message |-> ""]

\* What `const { x } = v` throws when v is undefined or null.
TypeError == [name |-> "TypeError", message |-> "Cannot destructure"]

\* request, lines 98-118: what the catch block throws for the error axios
\* rejected with.  err.hasResponse: error.response is set; err.data.nullish:
\* error.response.data is undefined or null; err.data.error: the `error` key
\* of the body (Undefined when the body has none).
\* Destructuring `error && error.response` (line 99) throws when there is no
\* response, destructuring `... && error.response.data` (lines 103-104)
\* throws when the body is undefined or null.
ClassifyError(err) ==
  IF ~err.hasResponse THEN TypeError
  ELSE IF err.data.nullish THEN TypeError
  ELSE LET status       == err.status
           errorMessage == err.data.error
       IN CASE status = 401 ->
                 [name |-> "MastodonUnauthorizedError", message |-> errorMessage]
            [] status = 404 ->
                 [name |-> "MastodonNotFoundError", message |-> errorMessage]
            [] status = 429 ->
                 [name |-> "MastodonRateLimitError", message |-> errorMessage]
            [] OTHER ->
                 [name    |-> "MastodonError",
                  message |-> IF Truthy(errorMessage) THEN errorMessage
                              ELSE "Unexpected error occurred"]

-----------------------------------------------------------------------------
(* The environment: transport and server *)

FollowersUrl == "/followers"
OtherUrl     == "/following"
OtherNextUri == "/following?max_id=9"

\* The uri of the next link the server sends with page i.
LinkUri(i) == "/followers?max_id=" \o ToString(i)

PrevUri(i) == "/followers?min_id=" \o ToString(i)

PageData(i) == "P" \o ToString(i)

\* The URL of the first page of the paginated collection.
FirstUrl == Get(initialUrl, initialParams).url

Tails == {"none", "prev", "empty"}

\* Link header of page i of the n pages: every page but the last carries a
\* next link; the last carries no Link header, only a prev link, or a next
\* link with an empty uri.
PageRefs(i, n, tail) ==
  LET prev == IF i > 1 THEN <<[rel |-> "prev", uri |-> PrevUri(i)]>> ELSE <<>>
  IN IF i < n THEN prev \o <<[rel |-> "next", uri |-> LinkUri(i)]>>
     ELSE CASE tail = "none"  -> <<>>
            [] tail = "prev"  -> <<[rel |-> "prev", uri |-> PrevUri(i)]>>
            [] tail = "empty" -> prev \o <<[rel |-> "next", uri |-> ""]>>

\* The 2xx response of the server to a GET of the URL u.
ServerResponse(u) ==
  IF u = FirstUrl
  THEN [status |-> 200, data |-> PageData(1),
        refs |-> PageRefs(1, serverLen, serverTail)]
  ELSE IF \E i \in 1..(serverLen - 1) : u = LinkUri(i)
  THEN LET i == CHOOSE j \in 1..(serverLen - 1) : u = LinkUri(j)
       IN [status |-> 200, data |-> PageData(i + 1),
           refs |-> PageRefs(i + 1, serverLen, serverTail)]
  ELSE IF u = OtherUrl
  THEN [status |-> 200, data |-> "Q1",
        refs |-> <<[rel |-> "next", uri |-> OtherNextUri]>>]
  ELSE [status |-> 200, data |-> "Q0", refs |-> <<>>]

NoResponse == [status |-> 0, data |-> "", refs |-> <<>>]

NoBody == [nullish |-> TRUE, error |-> Undefined]

\* Bodies of an error response: null, a body without an error key, a body
\* with one.
ErrorBodies ==
  {NoBody,
   [nullish |-> FALSE, error |-> Undefined],
   [nullish |-> FALSE, error |-> "Record not found"]}

FailStatuses == {401, 404, 429, 500}

\* The errors axios.request rejects with: a network failure carrying no
\* response, or a response whose status is outside 2xx.
TransportErrors ==
  {[hasResponse |-> FALSE, status |-> 0, data |-> NoBody]}
  \cup {[hasResponse |-> TRUE, status |-> s, data |-> b] :
          s \in FailStatuses, b \in ErrorBodies}

NoTransportError == [hasResponse |-> FALSE, status |-> 0, data |-> NoBody]

\* The failures met by the page fetches of a paginator: a network failure,
\* a throttled request and a server error without a body.
PageFetchErrors ==
  {[hasResponse |-> FALSE, status |-> 0, data |-> NoBody],
   [hasResponse |-> TRUE, status |-> 429,
    data |-> [nullish |-> FALSE, error |-> "Record not found"]],
   [hasResponse |-> TRUE, status |-> 500, data |-> NoBody]}

\* Every way axios.request(options) can settle, the rejections drawn from
\* the set errors.
TransportOutcomes(options, errors) ==
  {[ok |-> TRUE, response |-> ServerResponse(options.url),
    error |-> NoTransportError]}
  \cup {[ok |-> FALSE, response |-> NoResponse, error |-> e] : e \in errors}

-----------------------------------------------------------------------------
(* Gateway.paginate: the iterator's next, return and throw *)

\* The options object passed to next(value); next() and next({}) are
\* NoOptions.
NoOptions == [reset |-> FALSE, url |-> Undefined, params |-> UndefParams]

OverrideParams == Obj(<<<<"limit", "1">>>>)

NextOptions ==
  [reset : BOOLEAN, url : {Undefined, "", OtherUrl},
   params : {UndefParams, OverrideParams}]

\* Mutant: the reset restores url and leaves params as they are.
ResetCursorUrlOnly(value, cur) ==
  IF value.reset
  THEN [url |-> initialUrl, params |-> cur.params]
  ELSE cur

\* Mutant: the override url and params are assigned to the closure
\* variables before the fetch.
ResetCursorStoresOverride(value, cur) ==
  LET c == IF value.reset
           THEN [url |-> initialUrl, params |-> initialParams]
           ELSE cur
  IN [url    |-> IF Truthy(value.url) THEN value.url ELSE c.url,
      params |-> IF value.params.def THEN value.params ELSE c.params]

\* Mutant: the reset is done whenever any option is passed.
ResetCursorOnAnyOption(value, cur) ==
  IF value.reset \/ Truthy(value.url) \/ value.params.def
  THEN [url |-> initialUrl, params |-> initialParams]
  ELSE cur

\* next, lines 236-239: the cursor after `if (value && value.reset)`.
ResetCursor(value, cur) ==
  IF value.reset
  THEN [url |-> initialUrl, params |-> initialParams]
  ELSE cur

\* Mutant: a call with reset fetches from the restored cursor and ignores
\* the override.
FetchArgsResetWins(value, cur) ==
  IF value.reset
  THEN cur
  ELSE [url    |-> IF Truthy(value.url) THEN value.url ELSE cur.url,
        params |-> IF value.params.def THEN value.params ELSE cur.params]

\* next, lines 241-244: the arguments of get.
FetchArgs(value, cur) ==
  [url    |-> IF Truthy(value.url) THEN value.url ELSE cur.url,
   params |-> IF value.params.def THEN value.params ELSE cur.params]

NoRef == [found |-> FALSE, rel |-> "", uri |-> ""]

\* next, lines 248-250: refs.find(({ rel }) => rel === 'next'), the first
\* ref whose rel is next.
RECURSIVE FindNext(_)
FindNext(refs) ==
  IF Len(refs) = 0 THEN NoRef
  ELSE IF refs[1].rel = "next"
  THEN [found |-> TRUE, rel |-> refs[1].rel, uri |-> refs[1].uri]
  ELSE FindNext(Tail(refs))

ReturnResult(done, value) ==
  [type |-> "return", done |-> done, value |-> value, error |-> NoError]

ThrowResult(error) ==
  [type |-> "throw", done |-> FALSE, value |-> Undefined, error |-> error]

\* Mutant: the response without a next link hands out its page with done.
HandleResponseLastPageDone(cur, response) ==
  LET next == FindNext(response.refs)
  IN IF ~next.found \/ ~Truthy(next.uri)
     THEN [cursor |-> cur, result |-> ReturnResult(TRUE, response.data)]
     ELSE [cursor |-> [url |-> next.uri, params |-> UndefParams],
           result |-> ReturnResult(~Truthy(next.uri), response.data)]

\* Mutant: params is cleared before the next link is looked at.
HandleResponseClearsParamsFirst(cur, response) ==
  LET next == FindNext(response.refs)
  IN IF ~next.found \/ ~Truthy(next.uri)
     THEN [cursor |-> [url |-> cur.url, params |-> UndefParams],
           result |-> ReturnResult(TRUE, Undefined)]
     ELSE [cursor |-> [url |-> next.uri, params |-> UndefParams],
           result |-> ReturnResult(~Truthy(next.uri), response.data)]

\* Mutant: params is not cleared when the cursor moves to the next link.
HandleResponseKeepsParams(cur, response) ==
  LET next == FindNext(response.refs)
  IN IF ~next.found \/ ~Truthy(next.uri)
     THEN [cursor |-> cur, result |-> ReturnResult(TRUE, Undefined)]
     ELSE [cursor |-> [url |-> next.uri, params |-> cur.params],
           result |-> ReturnResult(~Truthy(next.uri), response.data)]

\* Mutant: only the presence of the next link is tested, not its uri.
HandleResponseNoUriCheck(cur, response) ==
  LET next == FindNext(response.refs)
  IN IF ~next.found
     THEN [cursor |-> cur, result |-> ReturnResult(TRUE, Undefined)]
     ELSE [cursor |-> [url |-> next.uri, params |-> UndefParams],
           result |-> ReturnResult(~Truthy(next.uri), response.data)]

\* next, lines 246-260: what next does with the response of a fetch that
\* succeeded: the cursor it leaves and the result it resolves to.
HandleResponse(cur, response) ==
  LET next == FindNext(response.refs)
  IN IF ~next.found \/ ~Truthy(next.uri)
     THEN [cursor |-> cur, result |-> ReturnResult(TRUE, Undefined)]
     ELSE [cursor |-> [url |-> next.uri, params |-> UndefParams],
           result |-> ReturnResult(~Truthy(next.uri), response.data)]

\* request, lines 96-119: the response axios resolved with, or the error
\* the catch block throws.
RequestResult(outcome) ==
  IF outcome.ok
  THEN [type |-> "return", done |-> FALSE, value |-> outcome.response.data,
        error |-> NoError]
  ELSE ThrowResult(ClassifyError(outcome.error))

\* next, line 241: a rejected get makes `await` throw, nothing below line
\* 244 runs and next rejects with the error request threw.
HandleFailure(cur, outcome) ==
  [cursor |-> cur, result |-> RequestResult(outcome)]

\* Mutant: return(value) ends the iteration and rewinds the cursor.
ReturnCallRewinds(value, cur) ==
  [cursor |-> [url |-> initialUrl, params |-> initialParams],
   result |-> ReturnResult(TRUE, value)]

\* return, lines 263-265: resolves to { value, done: true } and touches
\* neither url nor params.
ReturnCall(value, cur) ==
  [cursor |-> cur, result |-> ReturnResult(TRUE, value)]

\* throw, lines 267-269: rejects with the error it was given and touches
\* neither url nor params.
ThrowCall(error, cur) ==
  [cursor |-> cur, result |-> ThrowResult(error)]

\* What a call gave its caller, as recorded in `returned`.
Given(result) ==
  IF result.type = "throw" THEN "throw"
  ELSE IF result.value = Undefined THEN "done"
  ELSE result.value

NoRequest == [method |-> "", url |-> "", headers |-> NoHeaders]

NoOutcome == [ok |-> FALSE, response |-> NoResponse, error |-> NoTransportError]

NoCall ==
  [op |-> "none", value |-> NoOptions, arg |-> Undefined, thrown |-> NoError,
   options |-> [headers |-> NoHeaders],
   before |-> [url |-> "", params |-> UndefParams],
   request |-> NoRequest, outcome |-> NoOutcome,
   result |-> ReturnResult(FALSE, Undefined)]

\* The paginators an endpoint method creates side by side.
Paginators == 1..NumPaginators

NoSettled == [id |-> 0, pag |-> 0, result |-> ReturnResult(FALSE, Undefined)]

\* No paginator created yet besides the one of url and params.
InitIter ==
  /\ created = {}
  /\ store = [b \in Paginators |-> [url |-> "", params |-> UndefParams]]
  /\ calls = {}
  /\ wire = {}
  /\ issued = 0
  /\ settled = NoSettled
  /\ actor = 0

NoConnReq == [kind |-> "none", url |-> "", params |-> UndefParams]

NoClose == [from |-> "none", inHandler |-> FALSE, threw |-> FALSE]

EmptyDecoder == [buf |-> <<>>, name |-> "", data |-> <<>>]

\* No stream session yet.
InitStream ==
  /\ connState = "None"
  /\ connReq = NoConnReq
  /\ attempts = 0
  /\ wireIn = <<>>
  /\ consumed = <<>>
  /\ decoder = EmptyDecoder
  /\ emitted = <<>>
  /\ connBase = 0
  /\ midLine = FALSE
  /\ handlers = <<>>
  /\ log = <<>>
  /\ connError = NoError
  /\ lastClose = NoClose

\* The parameters paginate is called with by the endpoint methods.
InitialParamsSet == {UndefParams, Obj(<<>>), Obj(<<<<"limit", "2">>>>)}

Init ==
  /\ initialUrl = FollowersUrl
  /\ initialParams \in InitialParamsSet
  /\ token \in {"", "secret"}
  /\ url = initialUrl
  /\ params = initialParams
  /\ serverLen \in 1..MaxPages
  /\ serverTail \in Tails
  /\ ncalls = 0
  /\ last = NoCall
  /\ plain = TRUE
  /\ returned = <<>>
  /\ lastOkUri = ""
  /\ lastLinkUri = ""
  /\ resetSince = FALSE
  /\ InitIter
  /\ InitStream

\* next(value), lines 235-261, with the fetch it awaits.
PaginateNext(value) ==
  /\ ncalls < MaxCalls
  /\ LET before  == [url |-> url, params |-> params]
         cur     == ResetCursor(value, before)
         args    == FetchArgs(value, cur)
         options == RequestOptions(Get(args.url, args.params), token)
     IN \E outcome \in TransportOutcomes(options, PageFetchErrors) :
          LET step == IF outcome.ok
                      THEN HandleResponse(cur, outcome.response)
                      ELSE HandleFailure(cur, outcome)
              link == FindNext(outcome.response.refs)
              linked == outcome.ok /\ link.found /\ Truthy(link.uri)
          IN /\ url' = step.cursor.url
             /\ params' = step.cursor.params
             /\ last' = [op |-> "next", value |-> value, before |-> before,
                         request |-> options, outcome |-> outcome,
                         result |-> step.result]
             /\ plain' = (plain /\ value = NoOptions /\ outcome.ok)
             /\ returned' = IF plain'
                            THEN Append(returned, Given(step.result))
                            ELSE <<>>
             /\ lastOkUri' = IF linked THEN link.uri
                             ELSE IF outcome.ok THEN "" ELSE lastOkUri
             /\ lastLinkUri' = IF linked THEN link.uri ELSE lastLinkUri
             /\ resetSince' = IF linked THEN FALSE ELSE (resetSince \/ value.reset)
  /\ ncalls' = ncalls + 1
  /\ UNCHANGED <<initialUrl, initialParams, token, serverLen, serverTail>>
  /\ UNCHANGED <<iterVars, streamVars>>

\* return(value), lines 263-265.
PaginateReturn(value) ==
  /\ ncalls < MaxCalls
  /\ LET before == [url |-> url, params |-> params]
         step   == ReturnCall(value, before)
     IN /\ url' = step.cursor.url
        /\ params' = step.cursor.params
        /\ last' = [NoCall EXCEPT !.op = "return",
                                  !.arg = value,
                                  !.before = before,
                                  !.result = step.result]
  /\ ncalls' = ncalls + 1
  /\ plain' = FALSE
  /\ returned' = <<>>
  /\ UNCHANGED <<initialUrl, initialParams, token, serverLen, serverTail,
                 lastOkUri, lastLinkUri, resetSince>>
  /\ UNCHANGED <<iterVars, streamVars>>

\* throw(error), lines 267-269.
PaginateThrow(error) ==
  /\ ncalls < MaxCalls
  /\ LET before == [url |-> url, params |-> params]
         step   == ThrowCall(error, before)
     IN /\ url' = step.cursor.url
        /\ params' = step.cursor.params
        /\ last' = [NoCall EXCEPT !.op = "throw",
                                  !.thrown = error,
                                  !.before = before,
                                  !.result = step.result]
  /\ ncalls' = ncalls + 1
  /\ plain' = FALSE
  /\ returned' = <<>>
  /\ UNCHANGED <<initialUrl, initialParams, token, serverLen, serverTail,
                 lastOkUri, lastLinkUri, resetSince>>
  /\ UNCHANGED <<iterVars, streamVars>>

-----------------------------------------------------------------------------
(* The REST helpers get, post, put, delete and patch, called directly *)

\* JSON.stringify of a flat object of strings.
RECURSIVE JsonMembers(_)
JsonMembers(kv) ==
  IF Len(kv) = 0 THEN ""
  ELSE IF Len(kv) = 1 THEN "'" \o kv[1][1] \o "':'" \o kv[1][2] \o "'"
  ELSE "'" \o kv[1][1] \o "':'" \o kv[1][2] \o "'," \o JsonMembers(Tail(kv))

JsonStringify(body) == "{" \o JsonMembers(body.kv) \o "}"

\* post, put, delete and patch, lines 146-201: `body = {}` replaces an
\* undefined body, and the spread options come last.
WithBody(method, u, body, options) ==
  [method  |-> method,
   url     |-> u,
   data    |-> JsonStringify(IF body.def THEN body ELSE Obj(<<>>)),
   headers |-> options.headers]

RestUrls == {"/accounts/1", FollowersUrl}

RestBodies == {UndefParams, Obj(<<<<"note", "hi">>>>)}

\* The options an endpoint method passes on: none, or its own Content-Type.
RestOptions ==
  {[headers |-> NoHeaders],
   [headers |-> [ContentType |-> "multipart/form-data",
                 Authorization |-> Undefined]]}

\* A call of request through one of the helpers, with the request it sent,
\* the way the transport settled and what request gave its caller.
RestCall(op, options, sent, outcome) ==
  last' = [NoCall EXCEPT !.op = op,
                         !.options = options,
                         !.before = [url |-> url, params |-> params],
                         !.request = [method  |-> sent.method,
                                      url     |-> sent.url,
                                      headers |-> sent.headers],
                         !.outcome = outcome,
                         !.result = RequestResult(outcome)]

RestFrame ==
  /\ UNCHANGED <<initialUrl, initialParams, token, url, params, serverLen,
                 serverTail, ncalls, plain, returned, lastOkUri, lastLinkUri,
                 resetSince>>
  /\ UNCHANGED <<iterVars, streamVars>>

\* get, lines 129-137.
HttpGet(u, p, options) ==
  /\ LET sent == RequestOptions([Get(u, p) EXCEPT !.headers = options.headers],
                                token)
     IN \E outcome \in TransportOutcomes(sent, TransportErrors) :
          RestCall("get", options, sent, outcome)
  /\ RestFrame

\* post, lines 146-153.
HttpPost(u, body, options) ==
  /\ LET sent == RequestOptions(WithBody("POST", u, body, options), token)
     IN \E outcome \in TransportOutcomes(sent, TransportErrors) :
          RestCall("post", options, sent, outcome)
  /\ RestFrame

\* put, lines 162-169.
HttpPut(u, body, options) ==
  /\ LET sent == RequestOptions(WithBody("PUT", u, body, options), token)
     IN \E outcome \in TransportOutcomes(sent, TransportErrors) :
          RestCall("put", options, sent, outcome)
  /\ RestFrame

\* delete, lines 178-185.
HttpDelete(u, body, options) ==
  /\ LET sent == RequestOptions(WithBody("DELETE", u, body, options), token)
     IN \E outcome \in TransportOutcomes(sent, TransportErrors) :
          RestCall("delete", options, sent, outcome)
  /\ RestFrame

\* patch, lines 194-201.
HttpPatch(u, body, options) ==
  /\ LET sent == RequestOptions(WithBody("PATCH", u, body, options), token)
     IN \E outcome \in TransportOutcomes(sent, TransportErrors) :
          RestCall("patch", options, sent, outcome)
  /\ RestFrame

-----------------------------------------------------------------------------
(* Several paginators of one gateway, their calls not awaited *)

\* Mutant: url and params are variables of the gateway, shared by all its
\* iterators.
BindingShared(p) == 1

\* paginate, lines 231-232: `let url` and `let params` are declared in the
\* body of paginate, so every call of paginate binds variables of its own.
Binding(p) == p

\* The cursor of paginator p.
CursorOf(p) == store[Binding(p)]

\* Mutant: paginate fetches the first page when the iterator is created.
PaginateRequestsEager(p) ==
  {[call |-> 0, pag |-> p, url |-> Get(initialUrl, initialParams).url]}

\* paginate, lines 229-234: the requests sent by creating the iterator.
PaginateRequests(p) == {}

\* What belongs to the gateway and to the single paginator stays as it is.
GatewayFrame ==
  UNCHANGED <<initialUrl, initialParams, token, url, params, serverLen,
              serverTail, ncalls, last, plain, returned, lastOkUri,
              lastLinkUri, resetSince>>

\* The state that does not belong to the paginators created side by side.
SingleFrame == GatewayFrame /\ UNCHANGED streamVars

\* paginate(initialUrl, initialParams), lines 225-234.
Paginate(p) ==
  /\ p \notin created
  /\ created' = created \cup {p}
  /\ store' = [store EXCEPT ![Binding(p)] =
                 [url |-> initialUrl, params |-> initialParams]]
  /\ wire' = wire \cup PaginateRequests(p)
  /\ actor' = p
  /\ UNCHANGED <<calls, issued, settled>>
  /\ SingleFrame

\* next(value), lines 235-244: up to the `await`, with the request sent.
NextBegin(p, value) ==
  /\ p \in created
  /\ issued < MaxIterCalls
  /\ LET cur     == ResetCursor(value, CursorOf(p))
         args    == FetchArgs(value, cur)
         options == RequestOptions(Get(args.url, args.params), token)
         id      == issued + 1
     IN /\ store' = [store EXCEPT ![Binding(p)] = cur]
        /\ calls' = calls \cup {[id |-> id, pag |-> p, value |-> value,
                                 request |-> options]}
        /\ wire' = wire \cup {[call |-> id, pag |-> p, url |-> options.url]}
        /\ issued' = id
  /\ actor' = p
  /\ UNCHANGED <<created, settled>>
  /\ SingleFrame

\* next(value), lines 241-260: from the `await` on, once the fetch settled.
NextSettle(c, outcome) ==
  /\ c \in calls
  /\ LET step == IF outcome.ok
                 THEN HandleResponse(CursorOf(c.pag), outcome.response)
                 ELSE HandleFailure(CursorOf(c.pag), outcome)
     IN /\ store' = [store EXCEPT ![Binding(c.pag)] = step.cursor]
        /\ settled' = [id |-> c.id, pag |-> c.pag, result |-> step.result]
  /\ calls' = calls \ {c}
  /\ wire' = {w \in wire : w.call # c.id}
  /\ actor' = c.pag
  /\ UNCHANGED <<created, issued>>
  /\ SingleFrame

\* The options of the calls made on the paginators created side by side.
IterOptions ==
  {NoOptions, [NoOptions EXCEPT !.reset = TRUE]}

NextIter ==
  \/ \E p \in Paginators : Paginate(p)
  \/ \E p \in Paginators, value \in IterOptions : NextBegin(p, value)
  \/ \E c \in calls :
       \E outcome \in TransportOutcomes(c.request, PageFetchErrors) :
         NextSettle(c, outcome)

\* One gateway and one server, the paginators created on demand.
InitSideBySide ==
  /\ Init
  /\ token = "secret"
  /\ serverTail = "none"
  /\ initialParams = UndefParams

SpecIter == InitSideBySide /\ [][NextIter]_vars

CallerError == [name |-> "Error", message |-> "stop"]

Next ==
  \/ \E value \in NextOptions : PaginateNext(value)
  \/ \E value \in {PageData(1)} : PaginateReturn(value)
  \/ \E error \in {CallerError} : PaginateThrow(error)

Spec == Init /\ [][Next]_vars

\* The values a caller hands to return and the errors it hands to throw.
ReturnValues == {PageData(1), PageData(2), Undefined}

CallerErrors == {CallerError, [name |-> "RangeError", message |-> "enough"]}

\* A caller that mixes next() with return and throw.
NextReturn ==
  \/ \E value \in IterOptions : PaginateNext(value)
  \/ \E value \in ReturnValues : PaginateReturn(value)
  \/ \E error \in CallerErrors : PaginateThrow(error)

SpecReturn == Init /\ [][NextReturn]_vars

\* The REST helpers called by the endpoint methods.
NextRequest ==
  \/ \E u \in RestUrls, p \in RestBodies, o \in RestOptions : HttpGet(u, p, o)
  \/ \E u \in RestUrls, b \in RestBodies, o \in RestOptions : HttpPost(u, b, o)
  \/ \E u \in RestUrls, b \in RestBodies, o \in RestOptions : HttpPut(u, b, o)
  \/ \E u \in RestUrls, b \in RestBodies, o \in RestOptions : HttpDelete(u, b, o)
  \/ \E u \in RestUrls, b \in RestBodies, o \in RestOptions : HttpPatch(u, b, o)

\* A gateway whose REST helpers are called directly: no page of a paginator
\* has been fetched, the token is set or not.
InitRequest ==
  /\ Init
  /\ initialParams = UndefParams
  /\ serverLen = 1
  /\ serverTail = "none"

SpecRequest == InitRequest /\ [][NextRequest]_vars

\* The headers a caller of the helpers can pass: no Content-Type, an empty
\* one or its own, with or without an Authorization of its own.
HeaderOptions ==
  {[headers |-> [ContentType |-> ct, Authorization |-> a]] :
     ct \in {Undefined, "", "multipart/form-data"},
     a \in {Undefined, "Basic abc"}}

AccountsUrl == "/api/v1/accounts"

UpdateCredentialsUrl == "/api/v1/accounts/update_credentials"

\* The options create and updateCredentials pass to the helper.
MultipartOptions ==
  [headers |-> [ContentType |-> "multipart/form-data",
                Authorization |-> Undefined]]

\* AccountRepository.create, account-repository.ts lines 136-140.
AccountCreate(body) == HttpPost(AccountsUrl, body, MultipartOptions)

\* AccountRepository.updateCredentials, account-repository.ts lines 159-165.
AccountUpdateCredentials(body) ==
  HttpPatch(UpdateCredentialsUrl, body, MultipartOptions)

\* The account endpoints and the helpers called with headers of all kinds.
NextHeaders ==
  \/ \E b \in RestBodies \ {UndefParams} : AccountCreate(b)
  \/ \E b \in RestBodies : AccountUpdateCredentials(b)
  \/ \E o \in HeaderOptions : HttpGet(FollowersUrl, UndefParams, o)
  \/ \E o \in HeaderOptions : HttpPost(FollowersUrl, UndefParams, o)
  \/ \E o \in HeaderOptions : HttpPut(FollowersUrl, UndefParams, o)
  \/ \E o \in HeaderOptions : HttpDelete(FollowersUrl, UndefParams, o)
  \/ \E o \in HeaderOptions : HttpPatch(FollowersUrl, UndefParams, o)

SpecHeaders == InitRequest /\ [][NextHeaders]_vars

-----------------------------------------------------------------------------
(* Properties of the paginator *)

InitialCursor == [url |-> initialUrl, params |-> initialParams]

Cursor == [url |-> url, params |-> params]

\* The last call was next() and its fetch succeeded / was rejected.
FetchedOk == last.op = "next" /\ last.outcome.ok

FetchFailed == last.op = "next" /\ ~last.outcome.ok

\* The next link of the response the last call fetched.
LastLink == FindNext(last.outcome.response.refs)

\* The cursor the last call fetched from when it passed no override.
LastStart == IF last.value.reset THEN InitialCursor ELSE last.before

\* The last call passed no url and no params.
NoOverride == last.value.url = Undefined /\ ~last.value.params.def

\* C1: over a server chain P1..Pn whose last response carries no next link,
\* n successive plain next() calls return P1..Pn in that order and call n+1
\* reports end-of-sequence.
C1_PagesInOrder ==
  (plain /\ serverTail \in {"none", "prev"}) =>
    \A k \in 1..Len(returned) :
      /\ k <= serverLen => returned[k] = PageData(k)
      /\ k = serverLen + 1 => returned[k] = "done"

\* C2: the call that fetches a response without a next link still returns
\* the page of that response to its caller.
C2_LastPageReturned ==
  (FetchedOk /\ ~LastLink.found) =>
    /\ last.result.type = "return"
    /\ last.result.value = last.outcome.response.data

\* A step that is a call of next().
NextCalled == ncalls' = ncalls + 1 /\ last'.op = "next"

\* C3 as stated: the first next() on a fresh paginator without overrides
\* GETs the initial URL with the initial params as query, and a later
\* next() without options GETs exactly the uri of the next link of the most
\* recent successful response.
C3_FetchesLatestLink ==
  [][(NextCalled /\ last'.value = NoOptions) =>
       /\ last'.request.method = "GET"
       /\ ncalls = 0 => last'.request.url = FirstUrl
       /\ (ncalls > 0 /\ lastOkUri # "") => last'.request.url = lastOkUri]_vars

\* C3 amended: a next() without options GETs the stored cursor and adds
\* nothing to it: the uri of the usable next link of the latest successful
\* response that carried one, unless next({reset: true}) was called after
\* that response; the initial URL with the initial params as query when
\* there is no such response or a reset was requested since.
C3_FetchesStoredCursor ==
  [][(NextCalled /\ last'.value = NoOptions) =>
       /\ last'.request.method = "GET"
       /\ last'.request.url = IF lastLinkUri = "" \/ resetSince
                              THEN FirstUrl
                              ELSE lastLinkUri]_vars

\* A later next() without options was sent to the next link of page 1.
C3_Witness ==
  /\ FetchedOk
  /\ last.value = NoOptions
  /\ ncalls >= 2
  /\ initialParams.kv # <<>>
  /\ last.request.url = LinkUri(1)

\* C4: next({reset: true}), after any number of calls, fetches the initial
\* URL with the initial params, and the iteration continues from the
\* response to that fetch: page 1 and the cursor on its next link, or
\* end-of-sequence and the initial cursor when page 1 has no usable link.
C4_ResetRefetchesInitial ==
  (last.op = "next" /\ last.value.reset /\ NoOverride) =>
    /\ last.request.method = "GET"
    /\ last.request.url = FirstUrl
    /\ last.outcome.ok =>
         /\ last.outcome.response.data = PageData(1)
         /\ serverLen > 1 =>
              /\ last.result = ReturnResult(FALSE, PageData(1))
              /\ Cursor = [url |-> LinkUri(1), params |-> UndefParams]
         /\ serverLen = 1 =>
              /\ last.result.done
              /\ Cursor = InitialCursor

\* A reset issued after the cursor had left the initial URL and params.
C4_Witness ==
  /\ FetchedOk
  /\ last.value.reset
  /\ NoOverride
  /\ ncalls >= 2
  /\ last.before.url # initialUrl
  /\ last.before.params # initialParams

\* C5: a response whose next link has an empty uri gives the same result
\* and leaves the same cursor as that response without any next link:
\* end-of-sequence, and the cursor the fetch started from.
C5_EmptyUriAsNoLink ==
  (FetchedOk /\ LastLink.found /\ LastLink.uri = "") =>
    LET none == HandleResponse(LastStart,
                               [last.outcome.response EXCEPT !.refs = <<>>])
    IN /\ last.result = none.result
       /\ Cursor = none.cursor
       /\ last.result = ReturnResult(TRUE, Undefined)
       /\ Cursor = LastStart

\* A fetched response carried a next link with an empty uri.
C5_Witness ==
  /\ FetchedOk
  /\ LastLink.found
  /\ LastLink.uri = ""
  /\ last.outcome.response.data = PageData(serverLen)

\* C6: a url and/or params passed to next() are used for the fetch of that
\* call only: the call leaves the cursor on the next link of the response,
\* or where it was (after the reset, if requested) when there is none, and
\* the override values are never stored.
C6_OverrideOneFetchOnly ==
  /\ Cursor.url # OtherUrl
  /\ Cursor.params # OverrideParams
  /\ (last.op = "next" /\ (Truthy(last.value.url) \/ last.value.params.def)) =>
       /\ last.request.url =
            Get(IF Truthy(last.value.url) THEN last.value.url
                ELSE LastStart.url,
                IF last.value.params.def THEN last.value.params
                ELSE LastStart.params).url
       /\ Cursor = IF last.outcome.ok /\ LastLink.found /\ LastLink.uri # ""
                   THEN [url |-> LastLink.uri, params |-> UndefParams]
                   ELSE LastStart

\* A fetch went to an override url and params, none of which was stored.
C6_Witness ==
  /\ FetchedOk
  /\ last.value.url = OtherUrl
  /\ last.value.params = OverrideParams
  /\ ~last.value.reset
  /\ last.request.url = "/following?limit=1"
  /\ Cursor = last.before
  /\ ncalls >= 2

\* C7 as stated: when the fetch of a next() call fails, whatever options
\* were passed, the call throws and the cursor is what it was before the
\* call.
C7_FailureKeepsCursor ==
  FetchFailed =>
    /\ last.result.type = "throw"
    /\ Cursor = last.before

\* C7 amended: when the fetch of a next() call fails, the call throws and
\* the cursor is not advanced: it is what it was before the call, or the
\* initial URL and params when the call passed reset; a following next()
\* without options requests that stored URL and params.
C7_FailureDoesNotAdvance ==
  [][/\ (NextCalled /\ ~last'.outcome.ok) =>
          /\ last'.result.type = "throw"
          /\ Cursor' = IF last'.value.reset THEN InitialCursor ELSE Cursor
     /\ (FetchFailed /\ NextCalled /\ last'.value = NoOptions) =>
          last'.request.url = Get(url, params).url]_vars

\* A fetch failed in a call that passed reset after the cursor had advanced.
C7_Witness ==
  /\ FetchFailed
  /\ last.result.type = "throw"
  /\ last.value.reset
  /\ last.before.url = LinkUri(1)
  /\ Cursor = InitialCursor

-----------------------------------------------------------------------------
(* Properties of request and its error classification *)

\* The errors request classifies a failure to.
ClassifiedNames ==
  {"MastodonUnauthorizedError", "MastodonNotFoundError",
   "MastodonRateLimitError", "MastodonError"}

\* The error kind of an HTTP status.
KindOfStatus(status) ==
  CASE status = 401 -> "MastodonUnauthorizedError"
    [] status = 404 -> "MastodonNotFoundError"
    [] status = 429 -> "MastodonRateLimitError"
    [] OTHER        -> "MastodonError"

\* The last call went through request and the transport rejected it.
RequestFailed == last.op # "none" /\ last.request.method # "" /\ ~last.outcome.ok

\* C8: every failed fetch of a next() call ends with a classified error
\* thrown to the caller of next(): never end-of-sequence, never a page.
C8_FailedFetchThrowsClassified ==
  FetchFailed =>
    /\ last.result.type = "throw"
    /\ last.result.error.name \in ClassifiedNames

\* C9: a failed request whose response has a status throws the
\* Unauthorized error for 401, NotFound for 404, RateLimit for 429 and the
\* generic MastodonError for every other status.
C9_StatusDecidesKind ==
  (RequestFailed /\ last.outcome.error.hasResponse) =>
    /\ last.result.type = "throw"
    /\ last.result.error.name = KindOfStatus(last.outcome.error.status)

\* C10: a failure without a response, or with a response without a body, is
\* thrown by request as the generic MastodonError.
C10_NetworkFailureIsGeneric ==
  (RequestFailed /\ (~last.outcome.error.hasResponse
                     \/ (last.outcome.error.data.nullish
                         /\ last.outcome.error.status \notin {401, 404, 429}))) =>
    /\ last.result.type = "throw"
    /\ last.result.error.name = "MastodonError"

\* The message request falls back to when the body names no error.
FallbackMessage == "Unexpected error occurred"

\* C11: for every error kind the message of the error thrown equals the
\* `error` field of the response body when the body has one, and the fixed
\* fallback string when it has none.
C11_MessageFromBodyOrFallback ==
  (RequestFailed /\ last.outcome.error.hasResponse
                 /\ ~last.outcome.error.data.nullish) =>
    /\ last.result.type = "throw"
    /\ last.result.error.message =
         IF last.outcome.error.data.error # Undefined
         THEN last.outcome.error.data.error
         ELSE FallbackMessage

\* C12: the classification is total and pure: every failed request throws
\* exactly one of the four classified errors, and the error thrown is a
\* function of the status and the body of the failure alone.
C12_ClassificationTotalAndPure ==
  RequestFailed =>
    /\ last.result.type = "throw"
    /\ last.result.error.name \in ClassifiedNames
    /\ last.result.error = ClassifyError(last.outcome.error)

-----------------------------------------------------------------------------
(* The gateway as a whole: page fetches and direct REST calls *)

\* The REST helpers and the paginator of one gateway, used side by side.
NextGateway ==
  \/ \E value \in {NoOptions, [NoOptions EXCEPT !.reset = TRUE]} :
       PaginateNext(value)
  \/ \E u \in {FollowersUrl}, p \in {UndefParams}, o \in RestOptions :
       HttpGet(u, p, o)
  \/ \E u \in {FollowersUrl}, b \in {UndefParams}, o \in RestOptions :
       HttpPost(u, b, o)
  \/ \E u \in {FollowersUrl}, b \in {UndefParams}, o \in RestOptions :
       HttpPut(u, b, o)
  \/ \E u \in {FollowersUrl}, b \in {UndefParams}, o \in RestOptions :
       HttpDelete(u, b, o)
  \/ \E u \in {FollowersUrl}, b \in {UndefParams}, o \in RestOptions :
       HttpPatch(u, b, o)

SpecGateway == InitRequest /\ [][NextGateway]_vars

\* The last call sent a request.
RequestSent == last.request.method # ""

\* C16: with a token configured every REST request, page fetches included,
\* carries Authorization: Bearer <token>; without a token the gateway adds
\* no Authorization header.
C16_BearerTokenOnEveryRequest ==
  RequestSent =>
    /\ last.request.method \in {"GET", "POST", "PUT", "DELETE", "PATCH"}
    /\ Truthy(token) => last.request.headers.Authorization = "Bearer " \o token
    /\ ~Truthy(token) => last.request.headers.Authorization = Undefined

\* A page fetch of the paginator went out with the bearer token.
C16_Witness ==
  /\ last.op = "next"
  /\ token = "secret"
  /\ last.request.url = FirstUrl
  /\ last.request.headers.Authorization = "Bearer secret"

-----------------------------------------------------------------------------
(* Properties of paginators used side by side *)

\* C13: within one paginator fetches are strictly sequential: two next()
\* calls of one paginator never have their fetches in flight together, so
\* they cannot request the same cursor position twice.
C13_FetchesSequential ==
  \A c1 \in calls, c2 \in calls : c1.pag = c2.pag => c1.id = c2.id

\* The page a next() without options on paginator q would fetch.
NextPageOf(q) ==
  ServerResponse(Get(CursorOf(q).url, CursorOf(q).params).url).data

RequestsOf(pending) ==
  {[call |-> c.id, pag |-> c.pag, url |-> c.request.url] : c \in pending}

\* C15: the paginator is lazy and holds nothing between fetches: creating
\* it sends no request, and the requests in flight are exactly those of the
\* pending next() calls, so nothing is left once the calls have settled.
C15_NoRequestWithoutPendingCall ==
  [][/\ created' # created => wire' = wire
     /\ wire' = RequestsOf(calls')
     /\ calls' = {} => wire' = {}]_vars

\* Paginators were created and used, and the consumer stopped calling.
C15_Witness ==
  /\ created = Paginators
  /\ issued >= 2
  /\ settled.id = issued
  /\ calls = {}
  /\ wire = {}

-----------------------------------------------------------------------------
(***************************************************************************)
(* Streaming.  Gateway.stream attaches the credential and hands the URL    *)
(* and the parameters to EventHandler.connect.  The event handler is not   *)
(* part of the sources at hand: the Stream Decoder and the Stream Session  *)
(* below follow their description in the specification (4.2, 4.3, 6).      *)
(* The wire is a sequence of tokens, pieces of text no read splits; a      *)
(* line ends with the token "\n".                                          *)
(***************************************************************************)

\* params[key] = value on a parameter object.
SetParam(p, key, value) ==
  IF \E i \in 1..Len(p.kv) : p.kv[i][1] = key
    THEN [p EXCEPT !.kv = [i \in 1..Len(p.kv) |->
                             IF p.kv[i][1] = key THEN <<key, value>>
                                                 ELSE p.kv[i]]]
    ELSE [p EXCEPT !.kv = Append(p.kv, <<key, value>>)]

HasParam(p, key) == \E i \in 1..Len(p.kv) : p.kv[i][1] = key

ParamOf(p, key) == p.kv[CHOOSE i \in 1..Len(p.kv) : p.kv[i][1] = key][2]

StreamParamsNoToken(p, tok) == p

\* Gateway.stream: the parameters the connection is requested with.
StreamParams(p, tok) ==
  IF Truthy(tok) THEN SetParam(p, "access_token", tok) ELSE p

StreamingUrl == "/api/v1/streaming"

\* The parameters the endpoint methods call stream with.
StreamParamsSet == {Obj(<<<<"stream", "user">>>>)}

RECURSIVE ConcatTokens(_)
\* The text of a sequence of tokens.
ConcatTokens(toks) ==
  IF toks = <<>> THEN "" ELSE Head(toks) \o ConcatTokens(Tail(toks))

RECURSIVE JoinLines(_)
\* The lines joined with newlines.
JoinLines(lines) ==
  IF lines = <<>> THEN ""
  ELSE IF Len(lines) = 1 THEN lines[1]
  ELSE lines[1] \o "\n" \o JoinLines(Tail(lines))

\* The position of the first colon of a line, 0 if it has none.
ColonAt(line) ==
  IF \E i \in 1..Len(line) : line[i] = ":"
    THEN CHOOSE i \in 1..Len(line) :
           line[i] = ":" /\ \A j \in 1..(i - 1) : line[j] # ":"
    ELSE 0

\* The field name of a line: the text before its first colon.
FieldName(line) ==
  IF ColonAt(line) = 0 THEN ConcatTokens(line)
  ELSE ConcatTokens(SubSeq(line, 1, ColonAt(line) - 1))

\* The value of a line: the text after the colon, less one leading space.
FieldValue(line) ==
  LET rest == IF ColonAt(line) = 0 THEN <<>>
              ELSE SubSeq(line, ColonAt(line) + 1, Len(line))
  IN IF rest # <<>> /\ rest[1] = " " THEN ConcatTokens(Tail(rest))
     ELSE ConcatTokens(rest)

DecodeLineLastData(dec, line) ==
  IF line = <<>>
    THEN [dec |-> [dec EXCEPT !.name = "", !.data = <<>>],
          out |-> IF dec.name # "" /\ dec.data # <<>>
                    THEN <<[name |-> dec.name,
                            payload |-> JoinLines(dec.data)]>>
                    ELSE <<>>]
  ELSE IF line[1] = ":" THEN [dec |-> dec, out |-> <<>>]
  ELSE IF FieldName(line) = "event"
    THEN [dec |-> [dec EXCEPT !.name = FieldValue(line)], out |-> <<>>]
  ELSE IF FieldName(line) = "data"
    THEN [dec |-> [dec EXCEPT !.data = <<FieldValue(line)>>], out |-> <<>>]
  ELSE [dec |-> dec, out |-> <<>>]

\* The decoder takes one complete line: a blank line ends the frame, which
\* is emitted when its name and its payload have been assembled; a comment
\* line and an unrecognized field are ignored.
DecodeLine(dec, line) ==
  IF line = <<>>
    THEN [dec |-> [dec EXCEPT !.name = "", !.data = <<>>],
          out |-> IF dec.name # "" /\ dec.data # <<>>
                    THEN <<[name |-> dec.name,
                            payload |-> JoinLines(dec.data)]>>
                    ELSE <<>>]
  ELSE IF line[1] = ":" THEN [dec |-> dec, out |-> <<>>]
  ELSE IF FieldName(line) = "event"
    THEN [dec |-> [dec EXCEPT !.name = FieldValue(line)], out |-> <<>>]
  ELSE IF FieldName(line) = "data"
    THEN [dec |-> [dec EXCEPT !.data = Append(@, FieldValue(line))],
          out |-> <<>>]
  ELSE [dec |-> dec, out |-> <<>>]

\* The decoder takes one token: it buffers the partial line and decodes
\* the line when its end arrives.
DecodeToken(dec, t) ==
  IF t # "\n" THEN [dec |-> [dec EXCEPT !.buf = Append(@, t)], out |-> <<>>]
  ELSE DecodeLine([dec EXCEPT !.buf = <<>>], dec.buf)

\* The decoder takes one more token after what it has emitted so far.
DecodeNext(acc, t) ==
  LET one == DecodeToken(acc.dec, t)
  IN [dec |-> one.dec, out |-> acc.out \o one.out]

\* The decoder state and the frames emitted after one read of the stream.
DecodeChunk(dec, chunk) ==
  LET after[i \in 0..Len(chunk)] ==
        IF i = 0 THEN [dec |-> dec, out |-> <<>>]
        ELSE CHOOSE r \in {DecodeNext(acc, chunk[i]) : acc \in {after[i - 1]}} :
               TRUE
  IN after[Len(chunk)]

\* A frame of two data lines, the second with its field name split, with
\* a comment and an unrecognized field in between, and after it a frame
\* whose blank line never arrives.
UpdateWire ==
  << "event", ":", " ", "up", "date", "\n",
     "data", ":", "a", "\n",
     ":", "ping", "\n",
     "id", ":", "7", "\n",
     "da", "ta", ":", " ", "b", "\n",
     "\n",
     "event", ":", "update", "\n",
     "data", ":", "d", "\n" >>

\* A frame without a name, a frame without a payload and two frames.
MixedWire ==
  << "data", ":", "x", "\n",
     "\n",
     "event", ":", "delete", "\n",
     "\n",
     "event", ":", "delete", "\n",
     "data", ":", "y", "\n",
     "\n",
     "event", ":", "update", "\n",
     "data", ":", "z", "\n",
     "\n" >>

\* What the server sends on one connection.
Wires == {UpdateWire, MixedWire}

\* What the server sends to a session with subscribers: two frames on
\* every connection.
SessionWires ==
  { << "event", ":", "delete", "\n", "data", ":", "y", "\n", "\n",
       "event", ":", "update", "\n", "data", ":", "z", "\n", "\n" >> }

EventNames == {"update", "delete"}

CloseCallThrowsWhenBusy(from, inHandler) ==
  [from |-> from, inHandler |-> inHandler,
   threw |-> (inHandler \/ from = "Closed")]

\* close() called in state from, from inside a handler or not: it returns
\* normally whatever the state.
CloseCall(from, inHandler) ==
  [from |-> from, inHandler |-> inHandler, threw |-> FALSE]

\* Handler i is invoked with frame f; the handler may call close().
Invoke(sess, i, f) ==
  [sess EXCEPT !.log = Append(@, [h |-> i, f |-> f,
                                   closed |-> (i = sess.closer)]),
               !.state = IF i = sess.closer THEN "Closed" ELSE @,
               !.close = IF i = sess.closer THEN CloseCall(sess.state, TRUE)
                         ELSE @]

RECURSIVE DispatchFirstMatch(_, _, _, _)
DispatchFirstMatch(sess, hs, i, f) ==
  IF i > Len(hs) \/ sess.state # "Open" THEN sess
  ELSE IF hs[i].name # sess.emitted[f].name
    THEN DispatchFirstMatch(sess, hs, i + 1, f)
  ELSE Invoke(sess, i, f)

RECURSIVE DispatchFrom(_, _, _, _)
\* The handlers registered for the name of frame f are invoked from the
\* i-th on, in registration order; closing the session ends the dispatch.
DispatchFrom(sess, hs, i, f) ==
  IF i > Len(hs) \/ sess.state # "Open" THEN sess
  ELSE IF hs[i].name # sess.emitted[f].name
    THEN DispatchFrom(sess, hs, i + 1, f)
  ELSE DispatchFrom(Invoke(sess, i, f), hs, i + 1, f)

\* The session dispatches a decoded frame before it decodes any further.
Dispatch(sess, hs, frame) ==
  LET got == [sess EXCEPT !.emitted = Append(@, frame)]
  IN DispatchFrom(got, hs, 1, Len(got.emitted))

FeedTokenAfterClose(sess, hs, t) ==
  LET one == DecodeToken(sess.decoder, t)
      fed == [sess EXCEPT !.decoder = one.dec]
  IN IF one.out = <<>> THEN fed
     ELSE [fed EXCEPT !.emitted = Append(@, one.out[1]),
                      !.log = Append(@, [h |-> 1, f |-> Len(fed.emitted) + 1,
                                         closed |-> FALSE])]

\* The session feeds one token to the decoder and dispatches what comes out;
\* a closed session takes nothing.
FeedToken(sess, hs, t) ==
  IF sess.state # "Open" THEN sess
  ELSE LET one == DecodeToken(sess.decoder, t)
           fed == [sess EXCEPT !.decoder = one.dec]
       IN IF one.out = <<>> THEN fed ELSE Dispatch(fed, hs, one.out[1])

RECURSIVE FeedChunkNoBuffer(_, _, _)
FeedChunkNoBuffer(sess, hs, chunk) ==
  IF chunk = <<>> THEN [sess EXCEPT !.decoder.buf = <<>>]
  ELSE FeedChunkNoBuffer(FeedToken(sess, hs, Head(chunk)), hs, Tail(chunk))

RECURSIVE FeedChunk(_, _, _)
\* The session feeds one read of the stream to the decoder.
FeedChunk(sess, hs, chunk) ==
  IF chunk = <<>> THEN sess
  ELSE FeedChunk(FeedToken(sess, hs, Head(chunk)), hs, Tail(chunk))

\* The connection request of the session: the URL and the parameters that
\* connect was given.
ConnectionRequest(kind) ==
  [kind |-> kind, url |-> connReq.url, params |-> connReq.params]

StreamFrame == GatewayFrame /\ UNCHANGED iterVars

\* Gateway.stream(url, params): the token is attached and the event handler
\* requests the connection.
GatewayStream(u, p) ==
  /\ connState = "None"
  /\ connState' = "Connecting"
  /\ connReq' = [kind |-> "connect", url |-> u,
                 params |-> StreamParams(p, token)]
  /\ attempts' = 1
  /\ UNCHANGED <<wireIn, consumed, decoder, emitted, connBase, midLine,
                 handlers, log, connError, lastClose>>
  /\ StreamFrame

DecoderKeptAfterDrop == decoder

\* The decoder after the connection dropped: what it had buffered of the
\* frames in flight is gone.
DecoderAfterDrop == EmptyDecoder

StateAfterDropConnecting == "Connecting"

\* The state of the session after the connection dropped without close.
StateAfterDrop == "Reconnecting"

\* The error connect rejects with: the kind follows the status, a failure
\* without a response is generic.
ClassifyConnectError(err) ==
  [name    |-> IF err.hasResponse THEN KindOfStatus(err.status)
               ELSE "MastodonError",
   message |-> IF err.hasResponse /\ ~err.data.nullish
                  /\ Truthy(err.data.error)
                 THEN err.data.error ELSE FallbackMessage]

ReconnectFailureSurfaced(err) == ClassifyConnectError(err)

\* What the caller of connect sees after a failed reconnect attempt:
\* nothing new.
ErrorAfterReconnectFailure(err) == connError

\* A connection request succeeds: the session is open on a fresh connection.
ConnectOpened(w) ==
  /\ connState \in {"Connecting", "Reconnecting"}
  /\ connState' = "Open"
  /\ wireIn' = w
  /\ consumed' = <<>>
  /\ connBase' = Len(emitted)
  /\ midLine' = FALSE
  /\ UNCHANGED <<connReq, attempts, decoder, emitted, handlers, log,
                 connError, lastClose>>
  /\ StreamFrame

\* The initial connection request fails: the error goes to the caller.
ConnectFailed(err) ==
  /\ connState = "Connecting"
  /\ connState' = "Closed"
  /\ connError' = ClassifyConnectError(err)
  /\ UNCHANGED <<connReq, attempts, wireIn, consumed, decoder, emitted,
                 connBase, midLine, handlers, log, lastClose>>
  /\ StreamFrame

\* The connection drops.  Without close, what was in flight is lost and the
\* session requests the connection again; after close the drop is ignored.
Disconnect ==
  /\ connState \in {"Open", "Closed"}
  /\ wireIn' = <<>>
  /\ IF connState = "Open"
       THEN /\ attempts < MaxAttempts
            /\ connState' = StateAfterDrop
            /\ connReq' = ConnectionRequest("reconnect")
            /\ attempts' = attempts + 1
            /\ decoder' = DecoderAfterDrop
       ELSE UNCHANGED <<connState, connReq, attempts, decoder>>
  /\ UNCHANGED <<consumed, emitted, connBase, midLine, handlers, log,
                 connError, lastClose>>
  /\ StreamFrame

\* A reconnect attempt fails: the session tries again and tells no caller.
ReconnectFailed(err) ==
  /\ connState = "Reconnecting"
  /\ attempts < MaxAttempts
  /\ connReq' = ConnectionRequest("reconnect")
  /\ attempts' = attempts + 1
  /\ connError' = ErrorAfterReconnectFailure(err)
  /\ UNCHANGED <<connState, wireIn, consumed, decoder, emitted, connBase,
                 midLine, handlers, log, lastClose>>
  /\ StreamFrame

\* One read of the connection delivers the next k tokens; handler number
\* closer, if there is one, calls close() when it is invoked.  The read
\* that was under way when the session was closed is thrown away, and the
\* closed connection delivers nothing after it.
Feed(k, closer) ==
  /\ connState \in {"Open", "Closed"}
  /\ k <= Len(wireIn)
  /\ closer <= Len(handlers)
  /\ LET chunk == SubSeq(wireIn, 1, k)
         sess == FeedChunk([state |-> connState, decoder |-> decoder,
                            emitted |-> emitted, log |-> log,
                            closer |-> closer, close |-> lastClose],
                           handlers, chunk)
     IN /\ connState' = sess.state
        /\ decoder' = sess.decoder
        /\ emitted' = sess.emitted
        /\ log' = sess.log
        /\ lastClose' = sess.close
        /\ wireIn' = IF connState = "Open"
                       THEN SubSeq(wireIn, k + 1, Len(wireIn)) ELSE <<>>
        /\ consumed' = IF connState = "Open" THEN consumed \o chunk
                       ELSE consumed
        /\ midLine' = (midLine \/ (connState = "Open" /\ chunk[k] # "\n"))
  /\ UNCHANGED <<connReq, attempts, connBase, handlers, connError>>
  /\ StreamFrame

\* subscribe(eventName, handler).
Subscribe(name) ==
  /\ connState # "None"
  /\ Len(handlers) < MaxHandlers
  /\ handlers' = Append(handlers, [name |-> name, since |-> Len(emitted)])
  /\ UNCHANGED <<connState, connReq, attempts, wireIn, consumed, decoder,
                 emitted, connBase, midLine, log, connError, lastClose>>
  /\ StreamFrame

\* close().
Close ==
  /\ connState # "None"
  /\ connState' = "Closed"
  /\ lastClose' = CloseCall(connState, FALSE)
  /\ UNCHANGED <<connReq, attempts, wireIn, consumed, decoder, emitted,
                 connBase, midLine, handlers, log, connError>>
  /\ StreamFrame

\* The handlers are subscribed before the second frame arrives.
NextStream ==
  \/ \E p \in StreamParamsSet : GatewayStream(StreamingUrl, p)
  \/ \E w \in SessionWires : ConnectOpened(w)
  \/ \E err \in PageFetchErrors : ConnectFailed(err)
  \/ Disconnect
  \/ \E err \in PageFetchErrors : ReconnectFailed(err)
  \/ \E k \in 1..MaxChunk, closer \in 0..MaxHandlers : Feed(k, closer)
  \/ \E name \in EventNames : Len(emitted) <= 1 /\ Subscribe(name)
  \/ Close

\* One gateway with a token.
InitSession == InitRequest /\ token = "secret"

\* A stream session and its subscribers.
SpecStream == InitSession /\ [][NextStream]_vars

NextDecoder ==
  \/ \E p \in StreamParamsSet : GatewayStream(StreamingUrl, p)
  \/ \E w \in Wires : ConnectOpened(w)
  \/ \E err \in PageFetchErrors : ConnectFailed(err)
  \/ Disconnect
  \/ \E err \in PageFetchErrors : ReconnectFailed(err)
  \/ \E k \in 1..MaxChunk : Feed(k, 0)
  \/ Close

\* A stream session without subscribers, read in chunks of any size, of a
\* gateway with or without a token.
SpecDecoder == InitRequest /\ [][NextDecoder]_vars

\* The same session when a connection request that stays possible is
\* granted in the end: the server is eventually reachable.
SpecReconnect ==
  SpecDecoder /\ WF_vars(\E w \in Wires : ConnectOpened(w))

-----------------------------------------------------------------------------
(***************************************************************************)
(* Properties of the stream session.                                       *)
(***************************************************************************)

\* C17: with a token configured, every connection request of the session,
\* the initial one and every reconnect attempt, carries it as the query
\* parameter access_token; without a token no access_token is added.
C17_TokenOnEveryConnectionRequest ==
  connReq.kind \in {"connect", "reconnect"} =>
    IF Truthy(token)
      THEN /\ HasParam(connReq.params, "access_token")
           /\ ParamOf(connReq.params, "access_token") = token
      ELSE ~HasParam(connReq.params, "access_token")

\* The session asks for the connection again after a drop, with the token.
C17_Witness ==
  /\ token = "secret"
  /\ connReq.kind = "reconnect"
  /\ attempts >= 2
  /\ ParamOf(connReq.params, "access_token") = "secret"

\* The frames decoded on the open connection.
ConnEmitted == SubSeq(emitted, connBase + 1, Len(emitted))

\* The number of blank lines among the tokens from..to of the input.
BlankLinesIn(input, from, to) ==
  Cardinality({i \in from..to :
                 input[i] = "\n" /\ (i = 1 \/ input[i - 1] = "\n")})

\* The decoder fed the input of the connection in one piece.
Unsplit == DecodeChunk(EmptyDecoder, consumed)

\* C18: however the input is cut into chunks, the decoder has emitted what
\* it emits for the same input in one piece; no more frames are out than
\* blank lines have arrived, and when the stream has ended nothing has
\* been emitted for the frame left unfinished.
C18_ChunkingDoesNotMatter ==
  connState \in {"Open", "Reconnecting", "Closed"} =>
    /\ ConnEmitted = Unsplit.out
    /\ connState = "Open" => decoder = Unsplit.dec
    /\ Len(ConnEmitted) <= BlankLinesIn(consumed, 1, Len(consumed))
    /\ connState = "Reconnecting" => decoder = EmptyDecoder

\* The whole input arrived in chunks that cut through lines and the stream
\* ended: the first frame is out, the unfinished one is gone.
C18_Witness ==
  /\ connState = "Reconnecting"
  /\ consumed = UpdateWire
  /\ midLine
  /\ ConnEmitted = <<[name |-> "update", payload |-> "a\nb"]>>
  /\ decoder = EmptyDecoder

\* C19: the data lines of one frame are joined with newlines in the order
\* of arrival, and comment lines and unrecognized fields leave no trace in
\* any frame.
C19_DataLinesJoined ==
  (connState = "Open" /\ wireIn = <<>>) =>
    /\ consumed = UpdateWire =>
         ConnEmitted = <<[name |-> "update", payload |-> "a\nb"]>>
    /\ consumed = MixedWire =>
         ConnEmitted = <<[name |-> "delete", payload |-> "y"],
                         [name |-> "update", payload |-> "z"]>>

\* The frame of two data lines has been decoded.
C19_Witness ==
  /\ connState = "Open"
  /\ wireIn = <<>>
  /\ consumed = UpdateWire
  /\ emitted # <<>>
  /\ emitted[Len(emitted)].payload = "a\nb"

\* Invocation i of the log comes before invocation j in dispatch order.
Before(i, j) ==
  \/ log[i].f < log[j].f
  \/ log[i].f = log[j].f /\ log[i].h < log[j].h

\* A handler that closes the session was invoked before handler h could
\* get frame f.
ClosedBefore(h, f) ==
  \E k \in 1..Len(log) :
    /\ log[k].closed
    /\ log[k].f < f \/ (log[k].f = f /\ log[k].h < h)

C21_ClosedIsTerminal ==
  [][/\ connState = "Closed" =>
          /\ connState' = "Closed"
          /\ log' = log
          /\ emitted' = emitted
          /\ connReq' = connReq
          /\ attempts' = attempts
     /\ \A i \in 1..Len(log') : log'[i].closed => i = Len(log')]_vars

\* The session was closed with a frame waiting for its blank line in the
\* decoder and a handler subscribed to it, and the rest of the connection
\* has gone by.
C21_Witness ==
  /\ connState = "Closed"
  /\ lastClose.from = "Open"
  /\ decoder.name = "delete"
  /\ decoder.data = <<"y">>
  /\ decoder.buf = <<>>
  /\ wireIn = <<>>
  /\ \E h \in 1..Len(handlers) : handlers[h].name = "delete"
  /\ log = <<>>

\* C22: a drop of the open connection leads to Reconnecting with the frames
\* in flight gone, a granted reconnect leads back to Open, where only the
\* frames of the new connection are decoded and dispatched; no handler
\* gets the same frame twice.
C22_AtMostOnceAcrossReconnect ==
  [][/\ (connState = "Open" /\ connState' \notin {"Open", "Closed"}) =>
          /\ connState' = "Reconnecting"
          /\ decoder' = EmptyDecoder
          /\ wireIn' = <<>>
          /\ log' = log
          /\ emitted' = emitted
     /\ (connState = "Reconnecting" /\ connState' = "Open") =>
          /\ decoder' = EmptyDecoder
          /\ connBase' = Len(emitted)
          /\ log' = log
          /\ emitted' = emitted
     /\ connState = "Open" => ConnEmitted = Unsplit.out
     /\ \A i \in (Len(log) + 1)..Len(log') : log'[i].f > connBase
     /\ \A i, j \in 1..Len(log') :
          (i < j) => ~(log'[i].h = log'[j].h /\ log'[i].f = log'[j].f)]_vars

\* A handler was given a frame before the drop and another one after the
\* reconnect, the drop having cut a frame short.
C22_Witness ==
  /\ connState = "Open"
  /\ attempts >= 2
  /\ connBase = 1
  /\ Len(emitted) > connBase
  /\ \E i, j \in 1..Len(log) :
       /\ log[i].h = log[j].h
       /\ log[i].f <= connBase
       /\ log[j].f > connBase

\* The transitions of the connection state.
StateEdges ==
  {<<"None", "Connecting">>, <<"Connecting", "Open">>,
   <<"Open", "Reconnecting">>, <<"Reconnecting", "Open">>}
  \cup {<<from, "Closed">> : from \in {"Connecting", "Open", "Reconnecting"}}

C25_ConnectFailureSurfacedReconnectRetried ==
  /\ [][/\ (connState = "Connecting" /\ connState' = "Closed"
            /\ lastClose' = lastClose) =>
             /\ connError' # NoError
             /\ connError'.name \in ClassifiedNames
        /\ connState = "Reconnecting" =>
             /\ connError' = connError
             /\ connState' \in {"Reconnecting", "Open", "Closed"}
             /\ connState' = "Closed" => lastClose' # lastClose
             /\ attempts' # attempts =>
                  /\ connState' = "Reconnecting"
                  /\ connReq'.kind = "reconnect"]_vars
  /\ (connState = "Reconnecting") ~> (connState \in {"Open", "Closed"})

\* The session is open again after a reconnect attempt that failed, and no
\* error was surfaced.
C25_Witness ==
  /\ connState = "Open"
  /\ attempts = MaxAttempts
  /\ connBase > 0
  /\ connError = NoError

-----------------------------------------------------------------------------
(***************************************************************************)
(* Further properties of the paginator and of request.                     *)
(***************************************************************************)

\* The response of the last call carried a next link with a uri.
UsableLink == LastLink.found /\ Truthy(LastLink.uri)

\* C26 as stated: every next() performs one GET, also after the end of the
\* sequence was reported; a response without a usable next link leaves the
\* cursor as it was, and the following next() without options requests the
\* same URL as the call that met the missing link.
C26_MissingLinkRepeatsRequest ==
  [][/\ NextCalled => last'.request.method = "GET"
     /\ (NextCalled /\ last'.outcome.ok /\ ~UsableLink') =>
          Cursor' = IF last'.value.reset THEN InitialCursor ELSE Cursor
     /\ (FetchedOk /\ ~UsableLink /\ NextCalled /\ last'.value = NoOptions) =>
          last'.request.url = last.request.url]_vars

\* C26 amended: every next() performs one GET, also after the end of the
\* sequence was reported; a response without a usable next link leaves the
\* cursor as it was (after the reset, if the call passed one), and the
\* following next() without options requests the stored cursor, which is
\* the URL of the call that met the missing link when that call passed no
\* override.
C26_MissingLinkKeepsCursor ==
  [][/\ NextCalled => last'.request.method = "GET"
     /\ (NextCalled /\ last'.outcome.ok /\ ~UsableLink') =>
          Cursor' = IF last'.value.reset THEN InitialCursor ELSE Cursor
     /\ (FetchedOk /\ ~UsableLink /\ NextCalled /\ last'.value = NoOptions) =>
          /\ last'.request.url = Get(url, params).url
          /\ NoOverride => last'.request.url = last.request.url]_vars

\* Two calls in a row met the end of a chain of one page with parameters:
\* both sent the GET of the initial URL.
C26_Witness ==
  /\ plain
  /\ returned = <<"done", "done">>
  /\ initialParams.kv # <<>>
  /\ FetchedOk
  /\ ~UsableLink
  /\ last.request.method = "GET"
  /\ last.request.url = FirstUrl
  /\ Cursor = InitialCursor

ResetWithOverride ==
  last.op = "next" /\ last.value.reset
    /\ (Truthy(last.value.url) \/ last.value.params.def)

\* C28: a next() with reset and an override fetches from the override
\* values, each value not overridden being the initial one, and leaves as
\* cursor the next link of its response when it has a usable one, and the
\* initial URL and params otherwise.
C28_ResetWithOverride ==
  [][(NextCalled /\ ResetWithOverride') =>
       /\ last'.request.url =
            Get(IF Truthy(last'.value.url) THEN last'.value.url
                                           ELSE initialUrl,
                IF last'.value.params.def THEN last'.value.params
                                          ELSE initialParams).url
       /\ Cursor' = IF last'.outcome.ok /\ UsableLink'
                    THEN [url |-> LastLink'.uri, params |-> UndefParams]
                    ELSE InitialCursor]_vars

\* A paginator that had moved off the initial cursor was called with reset,
\* an override url and override params: the GET went to the override and
\* its response had no next link, so the cursor is the initial one.
C28_Witness ==
  /\ ResetWithOverride
  /\ last.value.url = OtherUrl
  /\ last.value.params = OverrideParams
  /\ last.before # InitialCursor
  /\ FetchedOk
  /\ last.request.url = Get(OtherUrl, OverrideParams).url
  /\ last.request.url # FirstUrl
  /\ ~UsableLink
  /\ Cursor = InitialCursor

\* The step is a call of return / of throw.
ReturnCalled == ncalls' = ncalls + 1 /\ last'.op = "return"

ThrowCalled == ncalls' = ncalls + 1 /\ last'.op = "throw"

\* C29: return(value) resolves to {value, done: true} and throw(error)
\* rejects with that error; neither sends a request nor changes the cursor,
\* and a next() without options that follows fetches from the cursor that
\* was stored before they were called.
C29_ReturnThrowLeaveCursor ==
  [][/\ ReturnCalled =>
          /\ last'.result = [type |-> "return", done |-> TRUE,
                             value |-> last'.arg, error |-> NoError]
          /\ last'.request = NoRequest
          /\ Cursor' = Cursor
     /\ ThrowCalled =>
          /\ last'.result.type = "throw"
          /\ last'.result.error = last'.thrown
          /\ last'.request = NoRequest
          /\ Cursor' = Cursor
     /\ (last.op \in {"return", "throw"} /\ NextCalled
           /\ last'.value = NoOptions) =>
          last'.request.url = Get(last.before.url, last.before.params).url]_vars

\* After next() had moved the cursor to the second page, return was called
\* with a value: it resolved to that value with done, sent nothing and the
\* cursor still points to the second page.
C29_Witness ==
  /\ last.op = "return"
  /\ last.arg = PageData(2)
  /\ last.result = ReturnResult(TRUE, PageData(2))
  /\ last.request = NoRequest
  /\ last.before = [url |-> LinkUri(1), params |-> UndefParams]
  /\ Cursor = last.before
  /\ Cursor # InitialCursor

\* C30: request sends Content-Type application/json exactly when the
\* caller supplied none (an empty one counts as none, line 78 testing
\* truthiness); a Content-Type of the caller, as the multipart/form-data of
\* create and updateCredentials, is sent as it is; and with a token set the
\* Authorization sent is the bearer token, whatever the caller supplied.
C30_HeadersOfRequest ==
  RequestSent =>
    /\ last.request.headers.ContentType =
         IF Truthy(last.options.headers.ContentType)
         THEN last.options.headers.ContentType
         ELSE "application/json"
    /\ last.request.url \in {AccountsUrl, UpdateCredentialsUrl} =>
         last.request.headers.ContentType = "multipart/form-data"
    /\ Truthy(token) =>
         last.request.headers.Authorization = "Bearer " \o token
    /\ ~Truthy(token) =>
         last.request.headers.Authorization = last.options.headers.Authorization

\* updateCredentials was called on a gateway with a token: the PATCH went
\* out as multipart/form-data with the bearer token.
C30_Witness ==
  /\ last.op = "patch"
  /\ last.request.method = "PATCH"
  /\ last.request.url = UpdateCredentialsUrl
  /\ last.options = MultipartOptions
  /\ last.request.headers.ContentType = "multipart/form-data"
  /\ Truthy(token)
  /\ last.request.headers.Authorization = "Bearer " \o token

====
